---- MODULE Spec2Model ----
(***************************************************************************)
(* Model of app.py: the review extractor (block_pattern and               *)
(* parse_reviews_for_user), the aggregator (build_summary) and the three   *)
(* JSON endpoints built on load_reviews.                                   *)
(*                                                                         *)
(* A text is a sequence of tokens.  "BS" is the backslash character, "Q"   *)
(* the double quote, ":" "," "-" "{" "}" and the digits are themselves,    *)
(* and every other token is a run of letters that holds neither a          *)
(* backslash nor a quote nor a digit (a key name or a word of a value).    *)
(***************************************************************************)
EXTENDS Integers, Sequences, FiniteSets, TLC

VARIABLES
    dataDir,       \* DATA_DIR: file stem -> file (content, readable) or NoFile
    request,       \* the request being served, or NoRequest
    pc,            \* position of the request handler
    source_users,  \* load_reviews: the sources to read
    idx,           \* load_reviews: index in source_users of the file at hand
    rows,          \* the records extracted so far
    blocks,        \* the blocks the text at hand was written from
    text,          \* parse_reviews_for_user: the text read from the file
    response,      \* the answer of the handler, or NoResponse
    summary        \* the result of build_summary, or NoSummary

vars == <<dataDir, request, pc, source_users, idx, rows, blocks, text, response, summary>>

----------------------------------------------------------------------------
(* Bounds of the model *)

MaxBlocks == 3
MaxRows == 4

----------------------------------------------------------------------------
(* Tokens *)

Digit == <<"0", "1", "2", "3", "4", "5", "6", "7", "8", "9">>

IsDigit(t) == \E d \in 1..10 : Digit[d] = t

DigitValue(t) == (CHOOSE d \in 1..10 : Digit[d] = t) - 1

Ratings == <<"bad", "fine", "good", "excellent">>

RatingSet == {Ratings[i] : i \in 1..4}

(* the character classes of block_pattern *)
InClass(cls, t) ==
    CASE cls = "digit" -> IsDigit(t)                  \* \d
      [] cls = "notq" -> t # "Q"                      \* [^"]
      [] cls = "notqbs" -> t # "Q" /\ t # "BS"        \* [^"\\]
      [] cls = "rating" -> t \in RatingSet            \* bad|fine|good|excellent
      [] OTHER -> FALSE

----------------------------------------------------------------------------
(* block_pattern, as a sequence of elements:                               *)
(*   lits  a run of literal characters                                     *)
(*   opt   one optional character (greedy ?)                               *)
(*   plus  one or more characters of a class (greedy +)                    *)
(*   one   one member of an alternation of words                           *)
(*   lazy  .*? under DOTALL                                                *)
(*   alt   an alternation of two sub-patterns, the left one tried first    *)
(*   open / close  the start and the end of a named group                  *)

Lits(ts) == [t |-> "lits", toks |-> ts]
Opt(tk) == [t |-> "opt", tok |-> tk]
Plus(c) == [t |-> "plus", cls |-> c]
One(c) == [t |-> "one", cls |-> c]
Lazy == [t |-> "lazy"]
Alt(a, b) == [t |-> "alt", left |-> a, right |-> b]
Open(g) == [t |-> "open", group |-> g]
Close(g) == [t |-> "close", group |-> g]

(* \\"key\\": *)
KeyLits(k) == <<"BS", "Q", k, "BS", "Q", ":">>

(* \\"key\\":\\"(?P<key>[^"]+)\\" *)
QuotedField(k) ==
    <<Lits(KeyLits(k) \o <<"BS", "Q">>), Open(k), Plus("notq"), Close(k), Lits(<<"BS", "Q">>)>>

block_pattern ==
    <<Lits(KeyLits("id")), Open("id"), Plus("digit"), Close("id"), Lits(<<",">>)>>
    \o QuotedField("sourceTable") \o <<Lits(<<",">>)>>
    \o <<Lits(KeyLits("sourceId") \o <<"BS">>), Opt("Q"), Open("sourceId"), Plus("notqbs"),
         Close("sourceId"), Lits(<<"BS">>), Opt("Q"), Lits(<<",">>)>>
    \o <<Lits(KeyLits("rating") \o <<"BS", "Q">>), Open("rating"), One("rating"),
         Close("rating"), Lits(<<"BS", "Q">>)>>
    \o <<Lazy>> \o QuotedField("ratingBucket")
    \o <<Lazy, Lits(KeyLits("ratingScore")), Open("ratingScore"), Opt("-"), Plus("digit"),
         Close("ratingScore")>>
    \o <<Lazy, Lits(KeyLits("comment")), Open("comment"),
         Alt(<<Lits(<<"null">>)>>, <<Lits(<<"BS", "Q">>), Lazy, Lits(<<"BS", "Q">>)>>),
         Close("comment")>>
    \o <<Lazy>> \o QuotedField("reviewerId")
    \o <<Lazy>> \o QuotedField("reviewedAt")
    \o <<Lazy>> \o QuotedField("taskId")
    \o <<Lits(<<",">>)>> \o QuotedField("taskLabel")

Groups ==
    {"id", "sourceTable", "sourceId", "rating", "ratingBucket", "ratingScore", "comment",
     "reviewerId", "reviewedAt", "taskId", "taskLabel"}

NoMatch == [ok |-> FALSE]

EmptyCaps == [g \in Groups |-> <<0, 0>>]

(* does the run of literals ts stand in txt at position p *)
LitsAt(txt, p, ts) ==
    /\ p + Len(ts) - 1 <= Len(txt)
    /\ \A i \in 1..Len(ts) : txt[p + i - 1] = ts[i]

RECURSIVE RunLength(_, _, _)
(* the number of characters of class cls that stand in txt from position p *)
RunLength(txt, p, cls) ==
    IF p <= Len(txt) /\ InClass(cls, txt[p]) THEN 1 + RunLength(txt, p + 1, cls) ELSE 0

(* the run of literals a pattern starts with, empty when it starts otherwise *)
FirstLits(pat) == IF pat # <<>> /\ Head(pat).t = "lits" THEN Head(pat).toks ELSE <<>>

(* the first position from p on at which the literals ts stand, 0 when none: *)
(* a match of a pattern that starts with ts can start nowhere else           *)
NextAt(txt, p, ts) ==
    LET c == {q \in p..(Len(txt) + 1) : LitsAt(txt, q, ts)}
    IN IF c = {} THEN 0 ELSE CHOOSE q \in c : \A r \in c : q <= r

(* The backtracking matcher.  A thread is [pat, p, caps]: the elements    *)
(* still to match, the position in the text, and the groups' start and     *)
(* end positions.  The machine runs one thread and keeps the alternatives  *)
(* not yet tried on a stack, the one to try first on top; a failure        *)
(* resumes the top alternative.  This is the order in which re explores    *)
(* the matches, so the machine stops at the match re reports.              *)
(* give(n) is the state of a greedy +: n characters taken, n - 1 next.     *)
Give(c, k) == [t |-> "give", cls |-> c, n |-> k]

Thread(pat, p, caps) == [pat |-> pat, p |-> p, caps |-> caps]

Continue(s, th) == [s EXCEPT !.pat = th.pat, !.p = th.p, !.caps = th.caps]

Push(s, th) == [s EXCEPT !.stack = <<th>> \o s.stack]

Fail(s) ==
    IF s.stack = <<>> THEN [s EXCEPT !.status = "fail"]
    ELSE Continue([s EXCEPT !.stack = Tail(s.stack)], Head(s.stack))

Step(txt, s) ==
    IF s.pat = <<>> THEN [s EXCEPT !.status = "ok"]
    ELSE LET e == Head(s.pat)
             rest == Tail(s.pat)
             p == s.p
         IN CASE e.t = "lits" ->
                    IF LitsAt(txt, p, e.toks)
                    THEN Continue(s, Thread(rest, p + Len(e.toks), s.caps))
                    ELSE Fail(s)
              [] e.t = "one" ->
                    IF p <= Len(txt) /\ InClass(e.cls, txt[p])
                    THEN Continue(s, Thread(rest, p + 1, s.caps))
                    ELSE Fail(s)
              [] e.t = "opt" ->
                    \* greedy ?: with the character first, without it next
                    IF p <= Len(txt) /\ txt[p] = e.tok
                    THEN Continue(Push(s, Thread(rest, p, s.caps)),
                                  Thread(rest, p + 1, s.caps))
                    ELSE Continue(s, Thread(rest, p, s.caps))
              [] e.t = "plus" ->
                    \* greedy +: the longest run first
                    Continue(s, Thread(<<Give(e.cls, RunLength(txt, p, e.cls))>> \o rest,
                                       p, s.caps))
              [] e.t = "give" ->
                    IF e.n < 1 THEN Fail(s)
                    ELSE Continue(Push(s, Thread(<<Give(e.cls, e.n - 1)>> \o rest, p, s.caps)),
                                  Thread(rest, p + e.n, s.caps))
              [] e.t = "lazy" ->
                    \* lazy .*?: the shortest gap first; the positions at which
                    \* the literals that follow do not stand fail at once
                    LET q == NextAt(txt, p, FirstLits(rest))
                    IN IF q = 0 THEN Fail(s)
                       ELSE Continue(Push(s, Thread(<<Lazy>> \o rest, q + 1, s.caps)),
                                     Thread(rest, q, s.caps))
              [] e.t = "alt" ->
                    Continue(Push(s, Thread(e.right \o rest, p, s.caps)),
                             Thread(e.left \o rest, p, s.caps))
              [] e.t = "open" ->
                    Continue(s, Thread(rest, p, [s.caps EXCEPT ![e.group] = <<p, 0>>]))
              [] e.t = "close" ->
                    Continue(s, Thread(rest, p,
                                       [s.caps EXCEPT ![e.group] = <<s.caps[e.group][1], p>>]))

RECURSIVE Run(_, _, _)
(* up to 2^k steps of the machine *)
Run(txt, s, k) ==
    IF s.status # "run" THEN s
    ELSE IF k = 0 THEN Step(txt, s)
    ELSE LET half == Run(txt, s, k - 1) IN Run(txt, half, k - 1)

RECURSIVE Exec(_, _)
(* the machine run until it stops *)
Exec(txt, s) ==
    LET r == Run(txt, s, 6) IN IF r.status # "run" THEN r ELSE Exec(txt, r)

(* pattern.match(text, p): the match of pat at position p, or NoMatch *)
Match(pat, txt, p) ==
    LET r == Exec(txt, [pat |-> pat, p |-> p, caps |-> EmptyCaps, stack |-> <<>>,
                        status |-> "run"])
    IN IF r.status = "ok" THEN [ok |-> TRUE, end |-> r.p, caps |-> r.caps] ELSE NoMatch

RECURSIVE Search(_, _)
(* re search: the first position from p on at which block_pattern matches *)
Search(txt, p) ==
    LET q == NextAt(txt, p, FirstLits(block_pattern))
    IN IF q = 0 THEN NoMatch
       ELSE LET m == Match(block_pattern, txt, q)
            IN IF m.ok THEN m ELSE Search(txt, q + 1)

(* m.group(g): the characters of group g *)
GroupText(txt, m, g) == SubSeq(txt, m.caps[g][1], m.caps[g][2] - 1)

----------------------------------------------------------------------------
(* parse_reviews_for_user, lines 107-130: one record per match *)

RECURSIVE DigitsToNat(_)
(* the number a run of decimal digits denotes *)
DigitsToNat(ds) ==
    IF ds = <<>> THEN 0
    ELSE 10 * DigitsToNat(SubSeq(ds, 1, Len(ds) - 1)) + DigitValue(ds[Len(ds)])

(* int(s) for s matching -?\d+ *)
ParseInt(s) == IF s[1] = "-" THEN 0 - DigitsToNat(Tail(s)) ELSE DigitsToNat(s)

StripSet == {"BS", "Q"}

RECURSIVE LStrip(_)
LStrip(s) == IF s # <<>> /\ Head(s) \in StripSet THEN LStrip(Tail(s)) ELSE s

RECURSIVE RStrip(_)
RStrip(s) ==
    IF s # <<>> /\ s[Len(s)] \in StripSet THEN RStrip(SubSeq(s, 1, Len(s) - 1)) ELSE s

(* comment.strip('\\"'): drops every leading and trailing backslash and quote *)
Strip(s) == RStrip(LStrip(s))

None == [none |-> TRUE, s |-> <<>>]

Some(s) == [none |-> FALSE, s |-> s]

(* lines 111-116 *)
NormalizeComment(c) == IF c = <<"null">> THEN None ELSE Some(Strip(c))

(* lines 109-129: the record of one match *)
Row(txt, m) ==
    [id |-> ParseInt(GroupText(txt, m, "id")),
     sourceTable |-> GroupText(txt, m, "sourceTable"),
     sourceId |-> GroupText(txt, m, "sourceId"),
     rating |-> GroupText(txt, m, "rating")[1],
     ratingBucket |-> GroupText(txt, m, "ratingBucket"),
     ratingScore |-> ParseInt(GroupText(txt, m, "ratingScore")),
     comment |-> NormalizeComment(GroupText(txt, m, "comment")),
     reviewerId |-> GroupText(txt, m, "reviewerId"),
     reviewedAt |-> GroupText(txt, m, "reviewedAt"),
     taskId |-> GroupText(txt, m, "taskId"),
     taskLabel |-> GroupText(txt, m, "taskLabel")]

RECURSIVE FindIter(_, _)
(* block_pattern.finditer(text): the non-overlapping matches, left to right *)
FindIter(txt, p) ==
    LET m == Search(txt, p)
    IN IF m.ok THEN <<Row(txt, m)>> \o FindIter(txt, m.end) ELSE <<>>

(* lines 107-130 *)
ExtractRows(txt) == FindIter(txt, 1)

----------------------------------------------------------------------------
(* The source text: blocks of escaped JSON.  A block is [kind, n]: n is   *)
(* its serial number, from which its field values are taken, and kind     *)
(* tells how its comment is written or which tail field is defective.     *)

WellFormedKinds == {"null", "empty", "plain", "nullword", "leadbs", "trailbs"}

DefectKinds ==
    {"noBucket", "noScore", "badScore", "noComment", "noReviewer", "noReviewedAt",
     "noTaskId", "labelGap"}

BlockKinds == WellFormedKinds \cup DefectKinds

RECURSIVE Digits(_)
(* the decimal digits of a natural number *)
Digits(n) == IF n < 10 THEN <<Digit[n + 1]>> ELSE Digits(n \div 10) \o <<Digit[(n % 10) + 1]>>

IdOf(b) == 7 * b.n
RatingOf(b) == Ratings[((b.n - 1) % 4) + 1]
ScoreOf(b) == IF b.n % 2 = 1 THEN 0 - b.n ELSE 10 * b.n
ReviewerOf(b) == <<"R", Digit[(b.n % 2) + 2]>>

(* the characters between the escaped quotes of the comment *)
CommentContent(kind) ==
    CASE kind = "empty" -> <<>>
      [] kind = "plain" -> <<"hi", ",", "there">>
      [] kind = "nullword" -> <<"null">>
      [] kind = "leadbs" -> <<"BS", "BS", "n", "hi">>
      [] kind = "trailbs" -> <<"hi", "BS", "BS">>
      [] OTHER -> <<>>

Escaped(s) == <<"BS", "Q">> \o s \o <<"BS", "Q">>

StrField(k, v) == KeyLits(k) \o Escaped(v) \o <<",">>

ScoreText(z) == IF z < 0 THEN <<"-">> \o Digits(0 - z) ELSE Digits(z)

BlockText(b) ==
    <<"{">> \o KeyLits("id") \o Digits(IdOf(b)) \o <<",">>
    \o StrField("sourceTable", <<"task_reviews">>)
    \o StrField("sourceId", <<"s">> \o Digits(b.n))
    \o StrField("rating", <<RatingOf(b)>>)
    \o (IF b.kind = "noBucket" THEN <<>>
        ELSE StrField("ratingBucket", <<"bucket">> \o Digits(b.n)))
    \o (IF b.kind = "noScore" THEN <<>>
        ELSE IF b.kind = "badScore" THEN KeyLits("ratingScore") \o <<"null", ",">>
        ELSE KeyLits("ratingScore") \o ScoreText(ScoreOf(b)) \o <<",">>)
    \o (IF b.kind = "noComment" THEN <<>>
        ELSE IF b.kind \in WellFormedKinds \ {"null"}
        THEN StrField("comment", CommentContent(b.kind))
        ELSE KeyLits("comment") \o <<"null", ",">>)
    \o (IF b.kind = "noReviewer" THEN <<>> ELSE StrField("reviewerId", ReviewerOf(b)))
    \o (IF b.kind = "noReviewedAt" THEN <<>>
        ELSE StrField("reviewedAt", <<"day">> \o Digits(b.n)))
    \o (IF b.kind = "noTaskId" THEN <<>> ELSE StrField("taskId", <<"t">> \o Digits(b.n)))
    \o (IF b.kind = "labelGap" THEN KeyLits("taskType") \o <<"null", ",">> ELSE <<>>)
    \o KeyLits("taskLabel") \o Escaped(<<"Label">> \o Digits(b.n)) \o <<"}">>

RECURSIVE TextOf(_)
(* the text of a sequence of blocks *)
TextOf(bs) ==
    IF bs = <<>> THEN <<>>
    ELSE IF Len(bs) = 1 THEN BlockText(bs[1])
    ELSE BlockText(bs[1]) \o <<",">> \o TextOf(Tail(bs))

(* the record a well-formed block stands for *)
RecordOf(b) ==
    [id |-> IdOf(b),
     sourceTable |-> <<"task_reviews">>,
     sourceId |-> <<"s">> \o Digits(b.n),
     rating |-> RatingOf(b),
     ratingBucket |-> <<"bucket">> \o Digits(b.n),
     ratingScore |-> ScoreOf(b),
     comment |-> IF b.kind = "null" THEN None ELSE Some(CommentContent(b.kind)),
     reviewerId |-> ReviewerOf(b),
     reviewedAt |-> <<"day">> \o Digits(b.n),
     taskId |-> <<"t">> \o Digits(b.n),
     taskLabel |-> <<"Label">> \o Digits(b.n)]

(* the sequences of at most n blocks, the k-th block bearing serial number k *)
BlockSeqs(n) ==
    UNION {{[k \in 1..len |-> [kind |-> f[k], n |-> k]] : f \in [1..len -> BlockKinds]} :
           len \in 0..n}

----------------------------------------------------------------------------
(* Extractor: the text is read, the scan of lines 107-130 is applied *)

NoRequest == [endpoint |-> "none"]
NoResponse == [status |-> 0]
NoSummary == [totalReviews |-> 0 - 1]

InitExtract ==
    /\ blocks \in BlockSeqs(MaxBlocks)
    /\ text = TextOf(blocks)
    /\ pc = "scan"
    /\ rows = <<>>
    /\ dataDir = <<>>
    /\ request = NoRequest
    /\ source_users = <<>>
    /\ idx = 0
    /\ response = NoResponse
    /\ summary = NoSummary

Scan ==
    /\ pc = "scan"
    /\ rows' = ExtractRows(text)
    /\ pc' = "scanned"
    /\ UNCHANGED <<dataDir, request, source_users, idx, blocks, text, response, summary>>

NextExtract == Scan

SpecExtract == InitExtract /\ [][NextExtract]_vars

----------------------------------------------------------------------------
(* build_summary.  A dict is the sequence of its items [key, val] in       *)
(* insertion order, which is the order in which dict.items() yields them.  *)

HasKey(d, k) == \E i \in 1..Len(d) : d[i].key = k

KeyIndex(d, k) == CHOOSE i \in 1..Len(d) : d[i].key = k

(* d.get(k, dflt) *)
Get(d, k, dflt) == IF HasKey(d, k) THEN d[KeyIndex(d, k)].val ELSE dflt

(* a count that is set, not added to *)
IncrLost(d, k) ==
    IF HasKey(d, k) THEN [d EXCEPT ![KeyIndex(d, k)].val = 1]
    ELSE Append(d, [key |-> k, val |-> 1])

(* d[k] += 1 on a defaultdict(int) *)
Incr(d, k) ==
    IF HasKey(d, k) THEN [d EXCEPT ![KeyIndex(d, k)].val = @ + 1]
    ELSE Append(d, [key |-> k, val |-> 1])

(* d[k][k2] += 1 on a defaultdict(lambda: defaultdict(int)) *)
Incr2(d, k, k2) ==
    IF HasKey(d, k) THEN [d EXCEPT ![KeyIndex(d, k)].val = Incr(@, k2)]
    ELSE Append(d, [key |-> k, val |-> Incr(<<>>, k2)])

RECURSIVE InsertDesc(_, _)
(* x put into the sequence s, sorted by val descending, behind the items of *)
(* equal val                                                                 *)
InsertDesc(s, x) ==
    IF s = <<>> THEN <<x>>
    ELSE IF Head(s).val >= x.val THEN <<Head(s)>> \o InsertDesc(Tail(s), x)
    ELSE <<x>> \o s

RECURSIVE SortedDesc(_)
(* sorted(items, key=lambda x: -x.val): stable, val descending *)
SortedDesc(s) ==
    IF s = <<>> THEN <<>>
    ELSE InsertDesc(SortedDesc(SubSeq(s, 1, Len(s) - 1)), s[Len(s)])

RECURSIVE SummaryByRating(_)
(* lines 48-50 *)
SummaryByRating(rs) ==
    IF rs = <<>> THEN <<>>
    ELSE Incr(SummaryByRating(SubSeq(rs, 1, Len(rs) - 1)), rs[Len(rs)].rating)

RECURSIVE ReviewersByRating(_)
(* lines 52-54 *)
ReviewersByRating(rs) ==
    IF rs = <<>> THEN <<>>
    ELSE Incr2(ReviewersByRating(SubSeq(rs, 1, Len(rs) - 1)),
               rs[Len(rs)].rating, rs[Len(rs)].reviewerId)

RECURSIVE ReviewerTotals(_)
(* lines 56-60 *)
ReviewerTotals(rs) ==
    IF rs = <<>> THEN <<>>
    ELSE LET r == rs[Len(rs)]
         IN Incr2(Incr2(ReviewerTotals(SubSeq(rs, 1, Len(rs) - 1)), r.reviewerId, "total"),
                  r.reviewerId, r.rating)

(* each rating's reviewers left in the order of the dict *)
UnsortedReviewersByRating(d) ==
    [i \in 1..Len(d) |->
        [key |-> d[i].key,
         val |-> [j \in 1..Len(d[i].val) |->
                    [reviewerId |-> d[i].val[j].key, count |-> d[i].val[j].val]]]]

(* lines 63-67: each rating's reviewers, count descending *)
SortedReviewersByRating(d) ==
    [i \in 1..Len(d) |->
        [key |-> d[i].key,
         val |-> LET sd == SortedDesc(d[i].val)
                 IN [j \in 1..Len(sd) |-> [reviewerId |-> sd[j].key, count |-> sd[j].val]]]]

(* fine read from the key of good *)
ReviewerTotalsListSwapped(d) ==
    [i \in 1..Len(d) |->
        [reviewerId |-> d[i].key,
         total |-> Get(d[i].val, "total", 0),
         bad |-> Get(d[i].val, "bad", 0),
         fine |-> Get(d[i].val, "good", 0),
         good |-> Get(d[i].val, "good", 0),
         excellent |-> Get(d[i].val, "excellent", 0)]]

(* lines 68-78 *)
ReviewerTotalsList(d) ==
    [i \in 1..Len(d) |->
        [reviewerId |-> d[i].key,
         total |-> Get(d[i].val, "total", 0),
         bad |-> Get(d[i].val, "bad", 0),
         fine |-> Get(d[i].val, "fine", 0),
         good |-> Get(d[i].val, "good", 0),
         excellent |-> Get(d[i].val, "excellent", 0)]]

RECURSIVE InsertByTotal(_, _)
InsertByTotal(s, x) ==
    IF s = <<>> THEN <<x>>
    ELSE IF Head(s).total >= x.total THEN <<Head(s)>> \o InsertByTotal(Tail(s), x)
    ELSE <<x>> \o s

RECURSIVE SortByTotal(_)
(* line 79: reviewer_totals.sort(key=lambda r: -r["total"]): stable *)
SortByTotal(s) ==
    IF s = <<>> THEN <<>>
    ELSE InsertByTotal(SortByTotal(SubSeq(s, 1, Len(s) - 1)), s[Len(s)])

(* line 82 *)
rating_weights == [bad |-> 0, fine |-> 1, good |-> 2, excellent |-> 3]

RECURSIVE WeightedSum(_)
(* line 83 *)
WeightedSum(rs) ==
    IF rs = <<>> THEN 0
    ELSE (IF rs[1].rating \in DOMAIN rating_weights THEN rating_weights[rs[1].rating] ELSE 0)
         + WeightedSum(Tail(rs))

(* round(num / den, 2) in hundredths, num >= 0 and den > 0: the nearest     *)
(* hundredth, and the even one when num / den lies midway between two (for  *)
(* den < 40 every such quotient is k / 8, which a float holds exactly)      *)
Round2(num, den) ==
    LET q == (100 * num) \div den
        r == (100 * num) % den
    IN IF 2 * r < den THEN q
       ELSE IF 2 * r > den THEN q + 1
       ELSE IF q % 2 = 0 THEN q ELSE q + 1

(* num / den: ZeroDivisionError when den is 0 *)
Divide(num, den) ==
    IF den = 0 THEN [raised |-> TRUE, hundredths |-> 0]
    ELSE [raised |-> FALSE, hundredths |-> Round2(num, den)]

(* the division without the test of total_reviews *)
AverageScoreUnguarded(weighted_sum, total_reviews) == Divide(weighted_sum, total_reviews)

(* line 84; the score is held in hundredths *)
AverageScore(weighted_sum, total_reviews) ==
    IF total_reviews # 0 THEN Divide(weighted_sum, total_reviews)
    ELSE [raised |-> FALSE, hundredths |-> 0]

(* str.lower() on the names of the model *)
Lower(name) == IF name \in {"all", "All", "ALL"} THEN "all" ELSE name

(* line 86 *)
DisplayName(name) == IF Lower(name) = "all" THEN "All Contributors" ELSE name

(* lines 44-95; raised tells that the call ended in an exception *)
build_summary(name, rs, users) ==
    LET avg == AverageScore(WeightedSum(rs), Len(rs))
    IN [raised |-> avg.raised,
        name |-> DisplayName(name),
        sourceUsers |-> users,
        totalReviews |-> Len(rs),
        averageScore |-> avg.hundredths,
        summaryByRating |-> SummaryByRating(rs),
        reviewersByRating |-> SortedReviewersByRating(ReviewersByRating(rs)),
        reviewerTotals |-> SortByTotal(ReviewerTotalsList(ReviewerTotals(rs)))]

----------------------------------------------------------------------------
(* Aggregator: build_summary applied to a sequence of records *)

Reviewers == {<<"R", "1">>, <<"R", "2">>, <<"R", "3">>}

(* a record with the given rating and reviewer *)
RecordWith(rating, reviewer) ==
    [id |-> 1, sourceTable |-> <<"task_reviews">>, sourceId |-> <<"s", "1">>,
     rating |-> rating, ratingBucket |-> <<"bucket", "1">>, ratingScore |-> 1,
     comment |-> None, reviewerId |-> reviewer, reviewedAt |-> <<"day", "1">>,
     taskId |-> <<"t", "1">>, taskLabel |-> <<"Label", "1">>]

RecordSeqs(n) ==
    UNION {[1..len -> {RecordWith(ra, re) : ra \in RatingSet, re \in Reviewers}] :
           len \in 0..n}

InitSummary ==
    /\ rows \in RecordSeqs(MaxRows)
    /\ request = [endpoint |-> "summary", name |-> "ann"]
    /\ source_users = <<"ann">>
    /\ pc = "aggregate"
    /\ summary = NoSummary
    /\ dataDir = <<>>
    /\ idx = 0
    /\ blocks = <<>>
    /\ text = <<>>
    /\ response = NoResponse

Aggregate ==
    /\ pc = "aggregate"
    /\ summary' = build_summary(request.name, rows, source_users)
    /\ pc' = "aggregated"
    /\ UNCHANGED <<dataDir, request, source_users, idx, rows, blocks, text, response>>

NextSummary == Aggregate

SpecSummary == InitSummary /\ [][NextSummary]_vars

----------------------------------------------------------------------------
(* The service: DATA_DIR, load_reviews and the three JSON endpoints.  One  *)
(* request is served at a time; other processes may remove files of        *)
(* DATA_DIR at any moment.                                                 *)

FileName(stem, ext) == [stem |-> stem, ext |-> ext]

FileNames == {FileName("ann", ".txt"), FileName("bob", ".txt"), FileName("notes", ".md")}

NoFile == [exists |-> FALSE, readable |-> FALSE, blocks |-> <<>>]

File(readable, bs) == [exists |-> TRUE, readable |-> readable, blocks |-> bs]

(* what a file of the model may hold: nothing, one block, two blocks, one  *)
(* block without taskId                                                     *)
Contents ==
    {<<>>,
     <<[kind |-> "null", n |-> 1]>>,
     <<[kind |-> "plain", n |-> 1], [kind |-> "null", n |-> 2]>>,
     <<[kind |-> "noTaskId", n |-> 1]>>}

(* the user names in ascending order, as users.sort() orders them *)
NameOrder == <<"ann", "bob", "notes">>

RequestNames == {"ann", "bob", "all", "All"}

ReviewerIds == {<<"R", "1">>, <<"R", "2">>, <<"R", "9">>}

(* fname.lower().endswith(".txt") *)
IsTxt(f) == f.ext = ".txt"

(* lines 133-143; DATA_DIR itself is a directory (line 200 creates it) *)
list_users(dir) ==
    SelectSeq(NameOrder, LAMBDA u : \E f \in FileNames : dir[f].exists /\ IsTxt(f) /\ f.stem = u)

(* line 101: os.path.isfile *)
IsFile(dir, f) == f \in FileNames /\ dir[f].exists

Response(status, error, reviews, sm) ==
    [status |-> status, error |-> error, reviews |-> reviews, summary |-> sm]

Init ==
    /\ dataDir \in [FileNames -> {NoFile, File(FALSE, <<>>)} \cup {File(TRUE, c) : c \in Contents}]
    /\ dataDir[FileName("notes", ".md")] = File(TRUE, <<>>)
    /\ request = NoRequest
    /\ pc = "idle"
    /\ source_users = <<>>
    /\ idx = 0
    /\ rows = <<>>
    /\ blocks = <<>>
    /\ text = <<>>
    /\ response = NoResponse
    /\ summary = NoSummary

(* a request arrives and its handler calls load_reviews (lines 27-41) up to *)
(* the first call of parse_reviews_for_user; reviewer_id is part of the URL *)
(* of reviews_by_reviewer alone and is held fixed for the other endpoints   *)
Request ==
    /\ pc = "idle"
    /\ \E endpoint \in {"reviews", "summary", "reviews_by_reviewer"}, name \in RequestNames,
          rid \in ReviewerIds :
          /\ endpoint # "reviews_by_reviewer" => rid = <<"R", "1">>
          /\ request' = [endpoint |-> endpoint, name |-> name, reviewer_id |-> rid]
          /\ source_users' = IF Lower(name) = "all" THEN list_users(dataDir) ELSE <<name>>
    /\ idx' = 1
    /\ rows' = <<>>
    /\ pc' = IF source_users' = <<>> THEN "respond" ELSE "isfile"
    /\ response' = NoResponse
    /\ summary' = NoSummary
    /\ UNCHANGED <<dataDir, blocks, text>>

(* the file of the source at hand: f"{user}.txt" *)
CurrentFile == FileName(source_users[idx], ".txt")

(* load_reviews goes on to the next source, or returns *)
Advance ==
    /\ idx' = idx + 1
    /\ pc' = IF idx < Len(source_users) THEN "isfile" ELSE "respond"

(* parse_reviews_for_user, lines 100-102 *)
CheckIsFile ==
    /\ pc = "isfile"
    /\ IF IsFile(dataDir, CurrentFile)
       THEN pc' = "open" /\ idx' = idx
       ELSE Advance
    /\ UNCHANGED <<dataDir, request, source_users, rows, blocks, text, response, summary>>

(* parse_reviews_for_user, lines 104-130: open raises when the file is     *)
(* gone or may not be read, and the exception ends the request             *)
OpenAndScan ==
    /\ pc = "open"
    /\ LET f == dataDir[CurrentFile]
       IN IF ~f.exists
          THEN /\ response' = Response(500, "FileNotFoundError", <<>>, NoSummary)
               /\ pc' = "done"
               /\ UNCHANGED <<idx, rows, blocks, text>>
          ELSE IF ~f.readable
          THEN /\ response' = Response(500, "PermissionError", <<>>, NoSummary)
               /\ pc' = "done"
               /\ UNCHANGED <<idx, rows, blocks, text>>
          ELSE /\ blocks' = f.blocks
               /\ text' = TextOf(f.blocks)
               /\ rows' = rows \o ExtractRows(text')
               /\ Advance
               /\ UNCHANGED response
    /\ UNCHANGED <<dataDir, request, source_users, summary>>

(* lines 162-165 *)
api_user_reviews ==
    /\ pc = "respond"
    /\ request.endpoint = "reviews"
    /\ response' = IF rows = <<>> THEN Response(404, "", <<>>, NoSummary)
                   ELSE Response(200, "", rows, NoSummary)
    /\ pc' = "done"
    /\ UNCHANGED <<dataDir, request, source_users, idx, rows, blocks, text, summary>>

(* lines 176-181 *)
api_user_summary ==
    /\ pc = "respond"
    /\ request.endpoint = "summary"
    /\ IF rows = <<>>
       THEN response' = Response(404, "", <<>>, NoSummary) /\ UNCHANGED summary
       ELSE /\ summary' = build_summary(request.name, rows, source_users)
            /\ response' = IF summary'.raised
                           THEN Response(500, "ZeroDivisionError", <<>>, NoSummary)
                           ELSE Response(200, "", <<>>, summary')
    /\ pc' = "done"
    /\ UNCHANGED <<dataDir, request, source_users, idx, rows, blocks, text>>

(* every record kept *)
FilterKeepAll(rs, reviewer_id) == rs

(* line 191 *)
FilterByReviewer(rs, reviewer_id) == SelectSeq(rs, LAMBDA r : r.reviewerId = reviewer_id)

(* lines 187-196 *)
api_user_reviews_by_reviewer ==
    /\ pc = "respond"
    /\ request.endpoint = "reviews_by_reviewer"
    /\ response' = IF rows = <<>> THEN Response(404, "", <<>>, NoSummary)
                   ELSE Response(200, "", FilterByReviewer(rows, request.reviewer_id),
                                 NoSummary)
    /\ pc' = "done"
    /\ UNCHANGED <<dataDir, request, source_users, idx, rows, blocks, text, summary>>

(* the answer is sent; the next request may arrive *)
Finish ==
    /\ pc = "done"
    /\ pc' = "idle"
    /\ request' = NoRequest
    /\ source_users' = <<>>
    /\ idx' = 0
    /\ rows' = <<>>
    /\ blocks' = <<>>
    /\ text' = <<>>
    /\ response' = NoResponse
    /\ summary' = NoSummary
    /\ UNCHANGED dataDir

(* another process removes a file of DATA_DIR *)
RemoveFile ==
    /\ \E f \in FileNames :
          /\ dataDir[f].exists
          /\ dataDir' = [dataDir EXCEPT ![f] = NoFile]
    /\ UNCHANGED <<request, pc, source_users, idx, rows, blocks, text, response, summary>>

Next ==
    \/ Request
    \/ CheckIsFile
    \/ OpenAndScan
    \/ api_user_reviews
    \/ api_user_summary
    \/ api_user_reviews_by_reviewer
    \/ Finish
    \/ RemoveFile

Spec == Init /\ [][Next]_vars

----------------------------------------------------------------------------
(* Claims about the extractor, under SpecExtract *)

AllWellFormed == \A k \in 1..Len(blocks) : blocks[k].kind \in WellFormedKinds

(* the ten fields other than comment, and whether there is a comment *)
SameBlock(row, b) ==
    /\ row.id = IdOf(b)
    /\ row.sourceTable = RecordOf(b).sourceTable
    /\ row.sourceId = RecordOf(b).sourceId
    /\ row.rating = RatingOf(b)
    /\ row.ratingBucket = RecordOf(b).ratingBucket
    /\ row.ratingScore = ScoreOf(b)
    /\ row.reviewerId = ReviewerOf(b)
    /\ row.reviewedAt = RecordOf(b).reviewedAt
    /\ row.taskId = RecordOf(b).taskId
    /\ row.taskLabel = RecordOf(b).taskLabel

(* C1: a text of N well-formed blocks gives exactly N records, the k-th     *)
(* record carrying the field values of the k-th block, in order.            *)
C1_RecordsOfWellFormedBlocks ==
    (pc = "scanned" /\ AllWellFormed) =>
        /\ Len(rows) = Len(blocks)
        /\ \A k \in 1..Len(blocks) : k <= Len(rows) => rows[k] = RecordOf(blocks[k])

(* C2: a block with a defective tail field gives no record, every          *)
(* well-formed block after it gives one record, and every record takes its  *)
(* fields from a single block.                                              *)
C2_DefectiveBlockSkipped ==
    pc = "scanned" =>
        /\ \A i \in 1..Len(rows) : \E k \in 1..Len(blocks) : SameBlock(rows[i], blocks[k])
        /\ \A k \in 1..Len(blocks) :
              blocks[k].kind \in DefectKinds =>
                  \A i \in 1..Len(rows) : rows[i].id # IdOf(blocks[k])
        /\ \A k \in 1..Len(blocks) :
              (/\ blocks[k].kind \in WellFormedKinds
               /\ \E j \in 1..(k - 1) : blocks[j].kind \in DefectKinds) =>
                  Cardinality({i \in 1..Len(rows) : rows[i].id = IdOf(blocks[k])}) = 1

(* C3: comment is None exactly when the block's comment is the unquoted     *)
(* null, and otherwise it is exactly the characters between the escaped     *)
(* quotes, unchanged.                                                       *)
C3_CommentKeptExactly ==
    (pc = "scanned" /\ AllWellFormed) =>
        \A k \in 1..Len(rows) :
            k <= Len(blocks) =>
                /\ rows[k].comment.none <=> blocks[k].kind = "null"
                /\ blocks[k].kind # "null" => rows[k].comment.s = CommentContent(blocks[k].kind)

----------------------------------------------------------------------------
(* Claims about the service, under Spec *)

IsAll == pc # "idle" /\ Lower(request.name) = "all"

(* C4: reading a source that is missing or cannot be read never raises.    *)
C4_ReadNeverRaises ==
    ~(pc = "done" /\ response.error \in {"FileNotFoundError", "PermissionError"})

(* C5: a single-source request with no records is answered 404; a          *)
(* combine-all request is never answered 404.                               *)
C5_NotFoundOnlyForSingleSource ==
    (pc = "done" /\ response.error = "") =>
        /\ (~IsAll /\ rows = <<>>) => response.status = 404
        /\ IsAll => response.status # 404

(* the positions of the records of reviewer rid in rs *)
Positions(rs, rid) == {i \in 1..Len(rs) : rs[i].reviewerId = rid}

(* C10: for rows that are not empty, reviews_by_reviewer answers with      *)
(* exactly the records of that reviewer, in their order and unchanged, and  *)
(* with an empty sequence, not an error, when there is none.                *)
C10_ReviewsOfReviewer ==
    (pc = "done" /\ request.endpoint = "reviews_by_reviewer" /\ response.error = ""
        /\ rows # <<>>) =>
        LET out == response.reviews
            pos == Positions(rows, request.reviewer_id)
        IN /\ response.status = 200
           /\ Len(out) = Cardinality(pos)
           /\ \A j \in 1..Len(out) :
                 \E i \in pos : out[j] = rows[i] /\ Cardinality({h \in pos : h < i}) = j - 1

C10_Witness ==
    /\ pc = "done"
    /\ request.endpoint = "reviews_by_reviewer"
    /\ response.status = 200
    /\ Len(response.reviews) = 2
    /\ Len(rows) = 3
    /\ rows[2].reviewerId # request.reviewer_id

----------------------------------------------------------------------------
(* Claims about the aggregator, under SpecSummary *)

Aggregated == pc = "aggregated"

Occurrences(rating) == {i \in 1..Len(rows) : rows[i].rating = rating}

(* C6: summaryByRating has a key for exactly the ratings that occur, each  *)
(* with its number of occurrences; the counts add up to totalReviews, the   *)
(* length of the sequence.                                                  *)
C6_SummaryByRatingCounts ==
    Aggregated =>
        LET d == summary.summaryByRating
        IN /\ summary.totalReviews = Len(rows)
           /\ {d[i].key : i \in 1..Len(d)} = {rows[i].rating : i \in 1..Len(rows)}
           /\ \A i, j \in 1..Len(d) : d[i].key = d[j].key => i = j
           /\ \A i \in 1..Len(d) : d[i].val = Cardinality(Occurrences(d[i].key))
           /\ Get(d, "bad", 0) + Get(d, "fine", 0) + Get(d, "good", 0) + Get(d, "excellent", 0)
                 = summary.totalReviews

C6_Witness ==
    /\ Aggregated
    /\ Len(summary.summaryByRating) = 2
    /\ \E i \in 1..2 : summary.summaryByRating[i].val = 3

Given(reviewer, rating) ==
    {i \in 1..Len(rows) : rows[i].reviewerId = reviewer /\ rows[i].rating = rating}

(* C7: reviewerTotals has one entry per distinct reviewerId; its bad, fine, *)
(* good and excellent are the numbers of such records of that reviewer (0   *)
(* when none), and total is their sum, the number of records of the         *)
(* reviewer.                                                                *)
C7_ReviewerTotalsCounts ==
    Aggregated =>
        LET t == summary.reviewerTotals
        IN /\ {t[i].reviewerId : i \in 1..Len(t)} = {rows[i].reviewerId : i \in 1..Len(rows)}
           /\ \A i, j \in 1..Len(t) : t[i].reviewerId = t[j].reviewerId => i = j
           /\ \A i \in 1..Len(t) :
                 /\ t[i].bad = Cardinality(Given(t[i].reviewerId, "bad"))
                 /\ t[i].fine = Cardinality(Given(t[i].reviewerId, "fine"))
                 /\ t[i].good = Cardinality(Given(t[i].reviewerId, "good"))
                 /\ t[i].excellent = Cardinality(Given(t[i].reviewerId, "excellent"))
                 /\ t[i].total = t[i].bad + t[i].fine + t[i].good + t[i].excellent
                 /\ t[i].total = Cardinality(Positions(rows, t[i].reviewerId))

C7_Witness ==
    /\ Aggregated
    /\ Len(summary.reviewerTotals) = 2
    /\ \E i \in 1..2 :
          /\ summary.reviewerTotals[i].total = 3
          /\ summary.reviewerTotals[i].good = 2
          /\ summary.reviewerTotals[i].bad = 1
          /\ summary.reviewerTotals[i].fine = 0

(* the first position of a record of the reviewer, and of one with the rating *)
FirstOf(reviewer) == CHOOSE i \in Positions(rows, reviewer) : \A j \in Positions(rows, reviewer) : i <= j

FirstGiven(reviewer, rating) ==
    CHOOSE i \in Given(reviewer, rating) : \A j \in Given(reviewer, rating) : i <= j

(* C8: every list of reviewersByRating is in non-increasing order of count *)
(* and reviewerTotals in non-increasing order of total; entries of equal    *)
(* count (total) are in the order in which their reviewers first occur in   *)
(* the input (for reviewersByRating: first occur with that rating).         *)
C8_SortedWithStableTies ==
    Aggregated =>
        /\ \A e \in 1..Len(summary.reviewersByRating) :
              LET rating == summary.reviewersByRating[e].key
                  l == summary.reviewersByRating[e].val
              IN \A i, j \in 1..Len(l) :
                    i < j =>
                        /\ l[i].count >= l[j].count
                        /\ l[i].count = l[j].count =>
                              FirstGiven(l[i].reviewerId, rating)
                                  < FirstGiven(l[j].reviewerId, rating)
        /\ LET t == summary.reviewerTotals
           IN \A i, j \in 1..Len(t) :
                 i < j =>
                     /\ t[i].total >= t[j].total
                     /\ t[i].total = t[j].total =>
                           FirstOf(t[i].reviewerId) < FirstOf(t[j].reviewerId)

(* a reviewer met later comes first by its count, ahead of two tied ones *)
C8_Witness ==
    /\ Aggregated
    /\ Len(rows) = 4
    /\ Len(summary.reviewerTotals) = 3
    /\ summary.reviewerTotals[1].total = 2
    /\ FirstOf(summary.reviewerTotals[1].reviewerId) = 2
    /\ \E e \in 1..Len(summary.reviewersByRating) :
          /\ Len(summary.reviewersByRating[e].val) = 3
          /\ summary.reviewersByRating[e].val[1].count = 2

(* C9: build_summary never raises; for records, averageScore is the        *)
(* weighted sum over totalReviews rounded to 2 decimals, between 0 and 3;   *)
(* for no records totalReviews and averageScore are 0 and summaryByRating,  *)
(* reviewersByRating and reviewerTotals are empty.                          *)
C9_AverageScore ==
    Aggregated =>
        LET n == Len(rows)
            weighted ==
                1 * Cardinality(Occurrences("fine")) + 2 * Cardinality(Occurrences("good"))
                    + 3 * Cardinality(Occurrences("excellent"))
            diff == n * summary.averageScore - 100 * weighted
        IN /\ ~summary.raised
           /\ n > 0 =>
                 /\ 2 * diff <= n
                 /\ 2 * diff >= 0 - n
                 /\ summary.averageScore >= 0
                 /\ summary.averageScore <= 300
           /\ n = 0 =>
                 /\ summary.totalReviews = 0
                 /\ summary.averageScore = 0
                 /\ summary.summaryByRating = <<>>
                 /\ summary.reviewersByRating = <<>>
                 /\ summary.reviewerTotals = <<>>

(* 8 / 3 = 2.666... is rounded up to 2.67 *)
C9_Witness ==
    /\ Aggregated
    /\ Len(rows) = 3
    /\ summary.averageScore = 267
    /\ ~summary.raised

====
